---- MODULE Spec2Model ----
(***************************************************************************)
(* Model of the chat route handler POST of src/app/api/chat/route.ts:      *)
(* the default path (snapshot, transaction extraction, currency            *)
(* conversion, persistence, response composition, intent classification,   *)
(* financial Q&A, stateless fallback) and the two spreadsheet import       *)
(* phases (csv_import preview with duplicate analysis, csv_import_confirm  *)
(* with the per-row loop).  Every awaited collaborator call is one step    *)
(* whose outcome (a value, or a thrown error) is chosen by the             *)
(* environment.  Texts composed by the language model are opaque: each is  *)
(* named by the prompt that produced it.                                   *)
(***************************************************************************)
EXTENDS Integers, Sequences, FiniteSets, TLC

\* ------------------------------------------------------------------ bounds
MaxLedger == 2
MaxRows == 2
MaxText == 2
MaxAmount == 2
MaxRate == 2

\* ------------------------------------------------- JavaScript value helpers
\* A JavaScript value that may stand where a number is expected.
Num(n) == [t |-> "number", v |-> n]
NaN == [t |-> "NaN", v |-> 0]
Undefined == [t |-> "undefined", v |-> 0]
Null == [t |-> "null", v |-> 0]

IsNum(x) == x.t = "number"

\* Number(x) as the arithmetic operators coerce it: null is 0, undefined is NaN.
ToNumber(x) == IF x.t = "null" THEN Num(0) ELSE IF x.t = "number" THEN x ELSE NaN

\* Math.abs(x)
MathAbs(x) ==
    LET n == ToNumber(x)
    IN IF IsNum(n) THEN Num(IF n.v < 0 THEN -n.v ELSE n.v) ELSE NaN

\* x < 0 and x > 0 (both false for NaN and undefined)
LessThanZero(x) == LET n == ToNumber(x) IN IsNum(n) /\ n.v < 0
GreaterThanZero(x) == LET n == ToNumber(x) IN IsNum(n) /\ n.v > 0

\* -x
Negate(x) == LET n == ToNumber(x) IN IF IsNum(n) THEN Num(-n.v) ELSE NaN

\* a / b.  The quotients that arise are exact (a is a rate times b); 0/0 and
\* any NaN operand give NaN.
Divide(a, b) ==
    LET x == ToNumber(a)
        y == ToNumber(b)
        ax == IF x.v < 0 THEN -x.v ELSE x.v
        ay == IF y.v < 0 THEN -y.v ELSE y.v
    IN IF IsNum(x) /\ IsNum(y) /\ y.v # 0 /\ (ax % ay = 0)
       THEN Num(IF (x.v < 0) = (y.v < 0) THEN ax \div ay ELSE -(ax \div ay))
       ELSE NaN

\* (t.amount || 0)
AmountOrZero(a) == IF IsNum(a) THEN a.v ELSE 0

\* ---------------------------------------------------------------- domains
Currencies == {"USD", "EUR"}
\* The profile's defaultCurrency field; "none" is a profile without one.
ProfileSettings == Currencies \cup {"none"}
\* profile?.defaultCurrency || "USD"
DefaultCurrencyOf(p) == IF p = "none" THEN "USD" ELSE p

AmountValues == {Num(-MaxAmount), Num(MaxAmount - 1)}
Rates == 2..MaxRate

\* Words of a text returned by the duplicate-analysis call.
Words == {"DUPLICATE", "duplicate", ":", "NEW_FILE", "other"}
Texts == UNION {[1..n -> Words] : n \in 0..MaxText}

\* duplicateAnalysis.includes("DUPLICATE")
IncludesDuplicate(text) == \E i \in 1..Len(text) : text[i] = "DUPLICATE"

\* duplicateAnalysis.replace(/^DUPLICATE:\s*/i, '').trim()
StripMarker(text) ==
    IF Len(text) >= 2 /\ text[1] \in {"DUPLICATE", "duplicate"} /\ text[2] = ":"
    THEN SubSeq(text, 3, Len(text))
    ELSE text

\* Rows returned by parseCSVWithGemini: a row is its amount field, or NullRow
\* for an entry that is not an object.
NullRow == [t |-> "nullrow", v |-> 0]
RowValues == AmountValues \cup {Undefined, NullRow}
RowSeqs == UNION {[1..n -> RowValues] : n \in 0..MaxRows}

\* Texts of responses.
FixedError == "Sorry, there was an error adding the transaction. Please try again."

NoResponse ==
    [status |-> 0, success |-> "absent", message |-> "", type |-> "absent",
     transactionAdded |-> "absent", isDuplicate |-> "absent",
     requiresConfirmation |-> "absent", error |-> "", explanation |-> <<>>,
     imported |-> 0, failed |-> 0]

Flag(b) == IF b THEN "true" ELSE "false"

\* NextResponse.json({error}, {status})
ErrorResponse(status, success, error) ==
    [NoResponse EXCEPT !.status = status, !.success = success, !.error = error]

\* NextResponse.json({success: true, data: {message, ...}})
MessageResponse(message) ==
    [NoResponse EXCEPT !.status = 200, !.success = "true", !.message = message]

NoTransaction == [description |-> "", amount |-> Undefined, currency |-> "none"]

\* ------------------------------------------------------------------ state
VARIABLES
    pc,                 \* position of the handler in the current request
    ledger,             \* records created by createTransaction, oldest first
    profileSetting,     \* the user's profile defaultCurrency field
    ledgerBefore,       \* the ledger when the current request arrived
    previous,           \* what the request before the current one was
    markerOk,           \* the message matches the import phase's marker
    modelOutput,        \* the classifier's model output, where it is given
    requests,           \* the requests in flight together, where there are two
    type,               \* the request's type field
    accepted,           \* the body parsed, the message and the credentials passed
    bodyReads,          \* request.json() calls of the current request
    response,           \* the response returned, NoResponse while running
    calls,              \* collaborator calls made by the current request, in order
    snapshot,           \* income, expenses, totalBalance, count of the fetch
    defaultCurrency,
    responseText,
    transactionAdded,
    transactionInfo,
    transactionCurrency,
    queryAnalysis,      \* result of handleFinancialQueryWithLLM
    finalAmount,
    finalCurrency,
    conversionRate,
    convertArgs,        \* amounts passed to convertAmount by the request
    conversion,         \* outcome of the last convertAmount call: none, ok, failed
    createdOk,          \* createTransaction calls of the request that returned
    createFailed,       \* createTransaction calls of the request that threw
    analysis,           \* outcome of the duplicate-analysis call: none, ok, threw
    answer,             \* outcome of answerFinancialQuestion: none, ok, threw
    promptFigures,      \* figures substituted into the success prompt
    duplicateAnalysis,
    aiExplanation,
    rows,               \* result.transactions of the confirm phase
    idx,                \* row the loop is at
    processed,          \* rows the loop has finished, in order
    importedCount,
    failedCount,
    newTransaction      \* last record built by the confirm loop

reqVars == <<type, accepted, bodyReads, response, calls>>
defVars == <<snapshot, responseText, transactionAdded, transactionInfo,
             transactionCurrency, queryAnalysis>>
convVars == <<defaultCurrency, finalAmount, finalCurrency, conversionRate,
              convertArgs, conversion>>
createVars == <<createdOk, createFailed>>
dupVars == <<duplicateAnalysis, aiExplanation>>
outVars == <<analysis, answer, promptFigures>>
envVars == <<profileSetting, ledgerBefore, previous, markerOk, modelOutput,
             requests>>
rowVars == <<rows, idx, processed, importedCount, failedCount, newTransaction>>
vars == <<pc, ledger, envVars, reqVars, defVars, convVars, createVars,
          outVars, dupVars, rowVars>>

NoRecord == [originalAmount |-> Undefined, originalCurrency |-> "none",
             convertedAmount |-> Undefined, convertedCurrency |-> "none",
             conversionRate |-> Undefined]

NoAnalysis == [isFinancial |-> FALSE, intent |-> "none"]

NoSnapshot == [income |-> 0, expenses |-> 0, totalBalance |-> 0, count |-> 0]

\* No model output given: the classifier's output is chosen at the call.
NoOutput == [threw |-> FALSE, fenced |-> FALSE, kind |-> "none",
             isFinancial |-> "absent", intent |-> "absent"]

\* The state before the first request, but for the handler's position, the
\* ledger, the profile and the model output.
InitState ==
    /\ previous = "none"
    /\ markerOk = TRUE
    /\ analysis = "none"
    /\ answer = "none"
    /\ promptFigures = NoSnapshot
    /\ type = "default"
    /\ accepted = FALSE
    /\ bodyReads = 0
    /\ response = NoResponse
    /\ calls = <<>>
    /\ snapshot = NoSnapshot
    /\ defaultCurrency = "none"
    /\ responseText = ""
    /\ transactionAdded = FALSE
    /\ transactionInfo = NoTransaction
    /\ transactionCurrency = "none"
    /\ queryAnalysis = NoAnalysis
    /\ finalAmount = Undefined
    /\ finalCurrency = "none"
    /\ conversionRate = Undefined
    /\ convertArgs = {}
    /\ conversion = "none"
    /\ createdOk = 0
    /\ createFailed = 0
    /\ duplicateAnalysis = <<>>
    /\ aiExplanation = <<>>
    /\ rows = <<>>
    /\ idx = 0
    /\ processed = <<>>
    /\ importedCount = 0
    /\ failedCount = 0
    /\ newTransaction = NoRecord

\* One request at a time: no requests in flight together.
NoRequests == <<>>

Init ==
    /\ pc = "idle"
    /\ requests = NoRequests
    /\ ledger = <<>>
    /\ ledgerBefore = <<>>
    /\ profileSetting \in ProfileSettings
    /\ modelOutput = NoOutput
    /\ InitState

\* The handler returns `r`.
Return(r) ==
    /\ response' = r
    /\ pc' = "done"

\* The outer catch of POST: the generic 500.
GenericError == ErrorResponse(500, "false", "Failed to process chat message. Please try again.")

\* ------------------------------------------------------------- entry point
\* What the request that just finished was, for the request that follows it:
\* "none" before the first request, "duplicate" when it answered with the
\* duplicate warning, "request" otherwise.
Finished ==
    IF pc = "idle" THEN "none"
    ELSE IF response.isDuplicate = "true" THEN "duplicate"
    ELSE "request"

\* const { message, type } = await request.json(), the message check, the
\* credentials check and the dispatch on type.
ReadBody ==
    /\ pc \in {"idle", "done"}
    /\ Len(ledger) < MaxLedger
    /\ bodyReads' = 1
    /\ calls' = <<>>
    /\ \E jsonOk \in BOOLEAN, messageOk \in BOOLEAN, keyOk \in BOOLEAN,
          ty \in {"default", "csv_import", "csv_import_confirm"} :
          /\ type' = ty
          /\ accepted' = (jsonOk /\ messageOk /\ keyOk)
          /\ IF accepted' /\ ty # "default"
             THEN markerOk' \in BOOLEAN
             ELSE markerOk' = TRUE
          /\ IF ~jsonOk THEN Return(GenericError)
             ELSE IF ~messageOk THEN Return(ErrorResponse(400, "absent", "Message is required"))
             ELSE IF ~keyOk THEN Return(ErrorResponse(500, "absent", "AI service not configured"))
             ELSE /\ response' = NoResponse
                  /\ pc' = IF ty = "csv_import" THEN "csv_import"
                           ELSE IF ty = "csv_import_confirm" THEN "csv_import_confirm"
                           ELSE "getServices"
    /\ snapshot' = NoSnapshot
    /\ responseText' = ""
    /\ transactionAdded' = FALSE
    /\ transactionInfo' = NoTransaction
    /\ transactionCurrency' = "none"
    /\ queryAnalysis' = NoAnalysis
    /\ defaultCurrency' = "none"
    /\ finalAmount' = Undefined
    /\ finalCurrency' = "none"
    /\ conversionRate' = Undefined
    /\ convertArgs' = {}
    /\ conversion' = "none"
    /\ createdOk' = 0
    /\ createFailed' = 0
    /\ duplicateAnalysis' = <<>>
    /\ aiExplanation' = <<>>
    /\ rows' = <<>>
    /\ idx' = 0
    /\ processed' = <<>>
    /\ importedCount' = 0
    /\ failedCount' = 0
    /\ newTransaction' = NoRecord
    /\ analysis' = "none"
    /\ answer' = "none"
    /\ promptFigures' = NoSnapshot
    /\ ledgerBefore' = ledger
    /\ previous' = Finished
    /\ UNCHANGED <<ledger, profileSetting, modelOutput, requests>>

\* ------------------------------------------------------------ default path
RECURSIVE SumIncome(_)
\* transactions.filter(t => (t.amount || 0) > 0).reduce((sum, t) => sum + (t.amount || 0), 0)
SumIncome(list) ==
    IF list = <<>> THEN 0
    ELSE (IF AmountOrZero(Head(list).amount) > 0
          THEN AmountOrZero(Head(list).amount) ELSE 0) + SumIncome(Tail(list))

RECURSIVE SumExpense(_)
\* transactions.filter(t => (t.amount || 0) < 0).reduce((sum, t) => sum + (t.amount || 0), 0)
SumExpense(list) ==
    IF list = <<>> THEN 0
    ELSE (IF AmountOrZero(Head(list).amount) < 0
          THEN AmountOrZero(Head(list).amount) ELSE 0) + SumExpense(Tail(list))

\* income, expenses and totalBalance of the fetched transactions
Income(list) == SumIncome(list)
\* (expenses left as the negative sum, without Math.abs)
ExpensesSigned(list) == SumExpense(list)
\* Math.abs of the sum of the negative amounts
Expenses(list) == LET s == SumExpense(list) IN IF s < 0 THEN -s ELSE s
SnapshotOf(list) ==
    [income |-> Income(list), expenses |-> Expenses(list),
     totalBalance |-> Income(list) - Expenses(list), count |-> Len(list)]

Call(name) == calls' = Append(calls, name)

\* const { services, userId } = await getServices()
GetServices ==
    /\ pc = "getServices"
    /\ Call("getServices")
    /\ \E ok \in BOOLEAN : pc' = IF ok THEN "getTransactions" ELSE "fallback"
    /\ UNCHANGED <<ledger, envVars, type, accepted, bodyReads, response,
                   defVars, convVars, createVars, outVars, dupVars, rowVars>>

\* await services.transactions.getTransactions(userId, 1000) and the snapshot
GetTransactions ==
    /\ pc = "getTransactions"
    /\ Call("getTransactions")
    /\ \E ok \in BOOLEAN :
          IF ok THEN /\ snapshot' = SnapshotOf(ledger)
                     /\ pc' = "findProfile"
          ELSE /\ pc' = "fallback"
               /\ UNCHANGED snapshot
    /\ UNCHANGED <<ledger, envVars, type, accepted, bodyReads, response,
                   responseText, transactionAdded, transactionInfo,
                   transactionCurrency, queryAnalysis, convVars, createVars,
                   outVars, dupVars, rowVars>>

\* await services.repositories.profiles.findById(userId) of the snapshot
FindProfile ==
    /\ pc = "findProfile"
    /\ Call("findById")
    /\ \E ok \in BOOLEAN :
          IF ok THEN /\ defaultCurrency' = DefaultCurrencyOf(profileSetting)
                     /\ pc' = "parseTransactionText"
          ELSE /\ pc' = "fallback"
               /\ UNCHANGED defaultCurrency
    /\ UNCHANGED <<ledger, envVars, type, accepted, bodyReads, response,
                   defVars, finalAmount, finalCurrency, conversionRate,
                   convertArgs, conversion, createVars, outVars, dupVars, rowVars>>

\* Records parseTransactionText may return.
ParsedTransactions ==
    [description : {"", "lunch"},
     amount : AmountValues \cup {Undefined, Null},
     currency : Currencies \cup {"none"}]

\* parsedTransaction.amount !== undefined && parsedTransaction.description
Detected(parsed) == parsed.amount # Undefined /\ parsed.description # ""

\* (the general reply composed whether or not a transaction was added)
AfterTransactionUnguarded(added) == "generalChat"
\* The branch after the transaction block: if (!transactionAdded) ...
AfterTransaction(added) == IF added THEN "respond" ELSE "generalChat"

\* await parseTransactionText(message) and the detection test
ParseTransactionText ==
    /\ pc = "parseTransactionText"
    /\ Call("parseTransactionText")
    /\ \/ \E parsed \in ParsedTransactions :
             IF Detected(parsed)
             THEN /\ transactionInfo' = parsed
                  /\ pc' = "findProfileForTransaction"
             ELSE /\ transactionInfo' = NoTransaction
                  /\ pc' = AfterTransaction(transactionAdded)
       \/ \* the call throws: logged, no transaction
          /\ transactionInfo' = NoTransaction
          /\ pc' = AfterTransaction(transactionAdded)
    /\ UNCHANGED <<ledger, envVars, type, accepted, bodyReads, response,
                   snapshot, responseText, transactionAdded, transactionCurrency,
                   queryAnalysis, convVars, createVars, outVars, dupVars, rowVars>>

\* transactionInfo.currency || defaultCurrency
CurrencyOr(currency, default) == IF currency = "none" THEN default ELSE currency

\* The second findById and the initial values of the conversion variables.
FindProfileForTransaction ==
    /\ pc = "findProfileForTransaction"
    /\ Call("findById")
    /\ \E ok \in BOOLEAN :
          IF ok
          THEN LET dc == DefaultCurrencyOf(profileSetting)
                   tc == CurrencyOr(transactionInfo.currency, dc)
               IN /\ defaultCurrency' = dc
                  /\ transactionCurrency' = tc
                  /\ finalAmount' = transactionInfo.amount
                  /\ finalCurrency' = tc
                  /\ conversionRate' = Num(1)
                  /\ pc' = IF tc # dc THEN "convertAmount" ELSE "createTransaction"
          ELSE /\ pc' = "composeError"
               /\ UNCHANGED <<defaultCurrency, transactionCurrency, finalAmount,
                              finalCurrency, conversionRate>>
    /\ UNCHANGED <<ledger, envVars, type, accepted, bodyReads, response,
                   snapshot, responseText, transactionAdded, transactionInfo,
                   queryAnalysis, convertArgs, conversion, createVars, outVars, dupVars,
                   rowVars>>

\* What convertAmount(amount, from, to) resolves to at rate `rate`.
ConvertResult(amount, rate) ==
    LET n == ToNumber(amount) IN IF IsNum(n) THEN Num(rate * n.v) ELSE NaN

\* The amount the default path passes to convertAmount.
DefaultConvertArg(info) == info.amount

\* await convertAmount(transactionInfo.amount, transactionCurrency, defaultCurrency)
ConvertAmount ==
    /\ pc = "convertAmount"
    /\ Call("convertAmount")
    /\ convertArgs' = convertArgs \cup {DefaultConvertArg(transactionInfo)}
    /\ \/ \E rate \in Rates :
             LET converted == ConvertResult(DefaultConvertArg(transactionInfo), rate)
             IN /\ conversionRate' = Divide(converted, transactionInfo.amount)
                /\ finalAmount' = converted
                /\ finalCurrency' = defaultCurrency
                /\ conversion' = "ok"
       \/ \* conversionError: keep the original amount
          /\ finalAmount' = transactionInfo.amount
          /\ finalCurrency' = transactionCurrency
          /\ conversionRate' = Num(1)
          /\ conversion' = "failed"
    /\ pc' = "createTransaction"
    /\ UNCHANGED <<ledger, envVars, type, accepted, bodyReads, response,
                   defVars, defaultCurrency, createVars, outVars, dupVars, rowVars>>

\* {amount: transactionInfo.amount, currency: transactionCurrency, ...}
CreateArgs(info, currency) == [amount |-> info.amount, currency |-> currency]

\* The record the default path hands to createTransaction.
DefaultCreateArgs == CreateArgs(transactionInfo, transactionCurrency)

\* await services.transactions.createTransaction(userId, {...})
CreateTransaction ==
    /\ pc = "createTransaction"
    /\ Call("createTransaction")
    /\ \E ok \in BOOLEAN :
          IF ok
          THEN /\ ledger' = Append(ledger, DefaultCreateArgs)
               /\ transactionAdded' = TRUE
               /\ createdOk' = createdOk + 1
               /\ pc' = "composeSuccess"
               /\ UNCHANGED createFailed
          ELSE /\ createFailed' = createFailed + 1
               /\ pc' = "composeError"
               /\ UNCHANGED <<ledger, transactionAdded, createdOk>>
    /\ UNCHANGED <<envVars, type, accepted, bodyReads, response, snapshot,
                   responseText, transactionInfo, transactionCurrency,
                   queryAnalysis, convVars, outVars, dupVars, rowVars>>

\* The figures of transactionSuccessPrompt: formattedBalance,
\* formattedIncome and formattedExpenses as computed after the fetch, and
\* transactions.length + 1.
SuccessPromptFigures == [snapshot EXCEPT !.count = @ + 1]

\* model.generateContent(transactionSuccessPrompt)
ComposeSuccess ==
    /\ pc = "composeSuccess"
    /\ promptFigures' = SuccessPromptFigures
    /\ Call("generateContent")
    /\ \E ok \in BOOLEAN :
          IF ok THEN /\ responseText' = "AI_SUCCESS"
                     /\ pc' = AfterTransaction(transactionAdded)
          ELSE /\ pc' = "composeError"
               /\ UNCHANGED responseText
    /\ UNCHANGED <<ledger, envVars, type, accepted, bodyReads, response,
                   snapshot, transactionAdded, transactionInfo,
                   transactionCurrency, queryAnalysis, convVars, createVars,
                   analysis, answer, dupVars, rowVars>>

\* catch (transactionError): model.generateContent(transactionErrorPrompt),
\* or the fixed string when that throws too.
ComposeError ==
    /\ pc = "composeError"
    /\ Call("generateContent")
    /\ \E ok \in BOOLEAN :
          responseText' = IF ok THEN "AI_APOLOGY" ELSE FixedError
    /\ pc' = AfterTransaction(transactionAdded)
    /\ UNCHANGED <<ledger, envVars, type, accepted, bodyReads, response,
                   snapshot, transactionAdded, transactionInfo,
                   transactionCurrency, queryAnalysis, convVars, createVars,
                   outVars, dupVars, rowVars>>

\* if (!transactionAdded): model.generateContent(prompt) for the general reply
GeneralChat ==
    /\ pc = "generalChat"
    /\ Call("generateContent")
    /\ \E ok \in BOOLEAN :
          IF ok THEN /\ responseText' = "AI_GENERAL"
                     /\ pc' = "classify"
          ELSE /\ pc' = "fallback"
               /\ UNCHANGED responseText
    /\ UNCHANGED <<ledger, envVars, type, accepted, bodyReads, response,
                   snapshot, transactionAdded, transactionInfo,
                   transactionCurrency, queryAnalysis, convVars, createVars,
                   outVars, dupVars, rowVars>>

\* ----------------------------------------------- intent classification
\* Values JSON.parse may meet in the classifier's output: an empty text, a
\* text that is not JSON, null, or an object whose two fields are a
\* boolean, a string, a number, null or absent.
JsonValues ==
    [kind : {"empty", "invalid", "null"}, isFinancial : {"absent"},
     intent : {"absent"}]
    \cup [kind : {"object"},
          isFinancial : {"true", "false", "string", "null", "absent"},
          intent : {"balance_inquiry", "non_financial", "number", "null", "absent"}]

\* Outcomes of model.generateContent inside the helper: a throw, or a JSON
\* text, bare or fenced in a markdown code block.
ClassifierOutputs ==
    {[NoOutput EXCEPT !.threw = TRUE]}
    \cup {[threw |-> FALSE, fenced |-> f, kind |-> j.kind,
           isFinancial |-> j.isFinancial, intent |-> j.intent] :
             f \in BOOLEAN, j \in JsonValues}

\* (a helper that hands the text to JSON.parse with its fence)
StripFenceKept(text) == text
\* text.match(/```(?:json)?\s*\n?([\s\S]*?)\n?```/): the text inside the fence
StripFence(text) == [text EXCEPT !.fenced = FALSE]

\* JSON.parse(jsonText): throws on an empty text, on a text that is not JSON
\* and on a text still fenced; "threw" stands for the SyntaxError.
JsonParse(text) ==
    IF text.fenced \/ text.kind \in {"empty", "invalid"}
    THEN [kind |-> "threw", isFinancial |-> "absent", intent |-> "absent"]
    ELSE [kind |-> text.kind, isFinancial |-> text.isFinancial,
          intent |-> text.intent]

UnknownIntent == [isFinancial |-> FALSE, intent |-> "unknown"]

\* The inner try of the helper for the model output `text`: the parsed
\* fields when typeof isFinancial is boolean and typeof intent is string;
\* the fallback after a SyntaxError, after the TypeError of reading a field
\* of null, and after a failed type test.
ClassifyText(text) ==
    LET parsed == JsonParse(StripFence(text))
    IN IF /\ parsed.kind = "object"
          /\ parsed.isFinancial \in {"true", "false"}
          /\ parsed.intent \in {"balance_inquiry", "non_financial"}
       THEN [isFinancial |-> parsed.isFinancial = "true", intent |-> parsed.intent]
       ELSE UnknownIntent

\* handleFinancialQueryWithLLM for the outcome `out` of its model call: the
\* outer catch returns the fallback when the call throws.
HandleFinancialQuery(out) ==
    IF out.threw THEN UnknownIntent ELSE ClassifyText(out)

\* await handleFinancialQueryWithLLM(message, detectedLanguage.code)
Classify ==
    /\ pc = "classify"
    /\ Call("handleFinancialQueryWithLLM")
    /\ \E out \in ClassifierOutputs : queryAnalysis' = HandleFinancialQuery(out)
    /\ pc' = IF queryAnalysis'.isFinancial THEN "answerFinancialQuestion" ELSE "respond"
    /\ UNCHANGED <<ledger, envVars, type, accepted, bodyReads, response,
                   snapshot, responseText, transactionAdded, transactionInfo,
                   transactionCurrency, convVars, createVars, outVars, dupVars, rowVars>>

\* (a Q&A answer returned through the final return of the default path)
AnswerResponseGeneral ==
    [MessageResponse(responseText) EXCEPT !.transactionAdded = Flag(transactionAdded)]
\* return NextResponse.json({success: true, data: {message: financialAnswer,
\* transactionAdded: false}})
AnswerResponse ==
    [MessageResponse("QA_ANSWER") EXCEPT !.transactionAdded = "false"]

\* (a Q&A failure left to the catch around the default path)
AfterAnswerFailureRethrow == "fallback"
\* catch (financialError): logged, the handler falls through to the final
\* return.
AfterAnswerFailure == "respond"

\* await answerFinancialQuestion(userId, message, detectedLanguage.code)
AnswerFinancialQuestion ==
    /\ pc = "answerFinancialQuestion"
    /\ Call("answerFinancialQuestion")
    /\ \E ok \in BOOLEAN :
          IF ok
          THEN /\ answer' = "ok"
               /\ Return(AnswerResponse)
          ELSE /\ answer' = "threw"
               /\ pc' = AfterAnswerFailure
               /\ UNCHANGED response
    /\ UNCHANGED <<ledger, envVars, type, accepted, bodyReads, defVars,
                   convVars, createVars, analysis, promptFigures, dupVars,
                   rowVars>>

\* return NextResponse.json({success: true, data: {message: responseText, transactionAdded}})
Respond ==
    /\ pc = "respond"
    /\ Return([MessageResponse(responseText) EXCEPT
                  !.transactionAdded = Flag(transactionAdded)])
    /\ UNCHANGED <<ledger, envVars, type, accepted, bodyReads, calls,
                   defVars, convVars, createVars, outVars, dupVars, rowVars>>

\* catch (dbError): model.generateContent(fallbackPrompt); a throw here
\* reaches the outer catch.
Fallback ==
    /\ pc = "fallback"
    /\ Call("generateContent")
    /\ \E ok \in BOOLEAN :
          IF ok THEN Return(MessageResponse("AI_FALLBACK")) ELSE Return(GenericError)
    /\ UNCHANGED <<ledger, envVars, type, accepted, bodyReads, defVars,
                   convVars, createVars, outVars, dupVars, rowVars>>

DefaultPath ==
    \/ GetServices
    \/ GetTransactions
    \/ FindProfile
    \/ ParseTransactionText
    \/ FindProfileForTransaction
    \/ ConvertAmount
    \/ CreateTransaction
    \/ ComposeSuccess
    \/ ComposeError
    \/ GeneralChat
    \/ Classify
    \/ AnswerFinancialQuestion
    \/ Respond
    \/ Fallback

\* ------------------------------------------------- csv_import (preview)
\* (the phase's failure sent without a status, inside the default 200)
CsvImportFailedEnvelope == ErrorResponse(200, "false", "CSV import failed")
\* catch (error) of the preview phase: {success: false, error: "CSV import
\* failed", message}, {status: 500}
CsvImportFailed == ErrorResponse(500, "false", "CSV import failed")

\* (a test that takes every analysis not answering NEW_FILE for a duplicate)
IsDuplicateFailClosed(text) == ~(Len(text) >= 1 /\ text[1] = "NEW_FILE")
\* if (duplicateAnalysis.includes("DUPLICATE"))
IsDuplicate(text) == IncludesDuplicate(text)

\* const { fileInfo, previousFile } = await request.json(), the marker match
\* and the construction of the duplicate prompt.  The body was already read
\* by ReadBody: a Fetch Request rejects the second read, a request object
\* whose json() may be called again resolves it.
CsvReadBody ==
    /\ pc = "csv_import"
    /\ bodyReads' = bodyReads + 1
    /\ \/ \* the second read rejects
          Return(CsvImportFailed)
       \/ \E fileInfo \in BOOLEAN, previousFile \in BOOLEAN :
             IF ~markerOk
             THEN Return(ErrorResponse(400, "false", "Invalid CSV import request format"))
             ELSE IF previousFile /\ ~fileInfo
             THEN \* fileInfo.name of an undefined fileInfo throws
                  Return(CsvImportFailed)
             ELSE /\ pc' = IF previousFile THEN "duplicateAnalysis" ELSE "parseCSVPreview"
                  /\ UNCHANGED response
    /\ UNCHANGED <<ledger, envVars, type, accepted, calls, defVars,
                   convVars, createVars, outVars, dupVars, rowVars>>

\* model.generateContent(duplicatePrompt) of the analysis and the test of
\* its text; a throw leaves duplicateAnalysis empty.
DuplicateAnalysis ==
    /\ pc = "duplicateAnalysis"
    /\ Call("generateContent")
    /\ \/ /\ analysis' = "ok"
          /\ \E text \in Texts : duplicateAnalysis' = text
       \/ /\ analysis' = "threw"
          /\ duplicateAnalysis' = <<>>
    /\ IF IsDuplicate(duplicateAnalysis')
       THEN /\ aiExplanation' = StripMarker(duplicateAnalysis')
            /\ pc' = "composeDuplicate"
       ELSE /\ pc' = "parseCSVPreview"
            /\ UNCHANGED aiExplanation
    /\ UNCHANGED <<ledger, envVars, type, accepted, bodyReads, response,
                   defVars, convVars, createVars, answer, promptFigures,
                   rowVars>>

DuplicateResponse(message, explanation) ==
    [MessageResponse(message) EXCEPT !.type = "duplicate_detected",
                                     !.isDuplicate = "true",
                                     !.explanation = explanation]

\* (a composition call left outside its own try reaches the phase's catch)
DuplicateFallbackError(explanation) == CsvImportFailed
\* The response when composing the duplicate warning throws: the canned
\* warning around aiExplanation.
DuplicateFallback(explanation) == DuplicateResponse("CANNED_DUPLICATE", explanation)

\* model.generateContent(duplicatePrompt) of the warning
ComposeDuplicate ==
    /\ pc = "composeDuplicate"
    /\ Call("generateContent")
    /\ \E ok \in BOOLEAN :
          IF ok THEN Return(DuplicateResponse("AI_DUPLICATE", <<>>))
          ELSE Return(DuplicateFallback(aiExplanation))
    /\ UNCHANGED <<ledger, envVars, type, accepted, bodyReads, defVars,
                   convVars, createVars, outVars, dupVars, rowVars>>

\* (a preview response that leaves the confirmation flag out)
PreviewResponseUnflagged ==
    [MessageResponse("CSV_PREVIEW") EXCEPT !.type = "csv_preview"]
\* The preview response: type csv_preview, requiresConfirmation true.
PreviewResponse ==
    [MessageResponse("CSV_PREVIEW") EXCEPT
        !.type = "csv_preview", !.requiresConfirmation = "true"]

\* await parseCSVWithGemini(csvText) and the preview response
ParseCSVPreview ==
    /\ pc = "parseCSVPreview"
    /\ Call("parseCSVWithGemini")
    /\ \E ok \in BOOLEAN :
          IF ok
          THEN Return(PreviewResponse)
          ELSE Return(CsvImportFailed)
    /\ UNCHANGED <<ledger, envVars, type, accepted, bodyReads, defVars,
                   convVars, createVars, outVars, dupVars, rowVars>>

\* ------------------------------------------------------ csv_import_confirm
ConfirmFailed == ErrorResponse(500, "false", "CSV import failed: message")

\* (a confirm phase that remembers the duplicate warning of the preview)
ConfirmProceedsUnlessFlagged == markerOk /\ previous # "duplicate"
\* const csvMatch = message.match(/Process CSV import: ([\s\S]*)/): the
\* confirm phase goes on exactly when the message carries the marker.
ConfirmProceeds == markerOk

\* The marker match and await parseCSVWithGemini(csvText)
ParseCSVConfirm ==
    /\ pc = "csv_import_confirm"
    /\ \/ /\ ~ConfirmProceeds
          /\ Return(ErrorResponse(400, "false", "Invalid CSV import confirmation format"))
          /\ UNCHANGED <<calls, rows>>
       \/ /\ ConfirmProceeds
          /\ Call("parseCSVWithGemini")
          /\ \/ \E list \in RowSeqs :
                   /\ rows' = list
                   /\ pc' = "confirmGetServices"
                   /\ UNCHANGED response
             \/ /\ Return(ConfirmFailed)
                /\ UNCHANGED rows
    /\ UNCHANGED <<ledger, envVars, type, accepted, bodyReads, defVars,
                   convVars, createVars, outVars, dupVars, idx, processed, importedCount,
                   failedCount, newTransaction>>

\* const { services, userId } = await getServices()
ConfirmGetServices ==
    /\ pc = "confirmGetServices"
    /\ Call("getServices")
    /\ \E ok \in BOOLEAN :
          IF ok THEN pc' = "confirmFindProfile" /\ UNCHANGED response
          ELSE Return(ConfirmFailed)
    /\ UNCHANGED <<ledger, envVars, type, accepted, bodyReads, defVars,
                   convVars, createVars, outVars, dupVars, rowVars>>

\* The loop head: the next row, or the summary when the rows are exhausted.
LoopAt(i) == IF i > Len(rows) THEN "confirmRespond" ELSE "row"

\* await services.repositories.profiles.findById(userId) and the counters
ConfirmFindProfile ==
    /\ pc = "confirmFindProfile"
    /\ Call("findById")
    /\ \E ok \in BOOLEAN :
          IF ok
          THEN /\ defaultCurrency' = DefaultCurrencyOf(profileSetting)
               /\ importedCount' = 0
               /\ failedCount' = 0
               /\ idx' = 1
               /\ pc' = LoopAt(1)
               /\ UNCHANGED response
          ELSE /\ Return(ConfirmFailed)
               /\ UNCHANGED <<defaultCurrency, importedCount, failedCount, idx>>
    /\ UNCHANGED <<ledger, envVars, type, accepted, bodyReads, defVars,
                   finalAmount, finalCurrency, conversionRate, convertArgs,
                   conversion, createVars, outVars, dupVars, rows, processed,
                   newTransaction>>

CsvCurrency == "USD"

\* const newTransaction = {...}
NewTransaction(amount, fAmount, fCurrency, rate) ==
    [originalAmount |-> MathAbs(amount), originalCurrency |-> CsvCurrency,
     convertedAmount |-> fAmount, convertedCurrency |-> fCurrency,
     conversionRate |-> rate]

\* The loop goes on with the next row after a row that was imported, and
\* after a row whose error the catch counted.
NextRowAfterSuccess(i) == i + 1
\* (a loop whose catch sits outside it ends at the first failing row)
NextRowAfterFailureAbort(i) == Len(rows) + 1
NextRowAfterFailure(i) == i + 1

\* A row enters the loop body: the conversion variables are initialised; a
\* row that is not an object throws at transaction.amount and is counted.
RowStart ==
    /\ pc = "row"
    /\ IF rows[idx] = NullRow
       THEN /\ failedCount' = failedCount + 1
            /\ processed' = Append(processed, idx)
            /\ idx' = NextRowAfterFailure(idx)
            /\ pc' = LoopAt(idx')
            /\ UNCHANGED <<finalAmount, finalCurrency, conversionRate, conversion,
                           newTransaction>>
       ELSE /\ finalAmount' = rows[idx]
            /\ conversion' = "none"
            /\ finalCurrency' = CsvCurrency
            /\ conversionRate' = Num(1)
            /\ IF CsvCurrency # defaultCurrency
               THEN pc' = "rowConvert" /\ UNCHANGED newTransaction
               ELSE /\ pc' = "rowCreate"
                    /\ newTransaction' =
                          NewTransaction(rows[idx], rows[idx], CsvCurrency, Num(1))
            /\ UNCHANGED <<failedCount, processed, idx>>
    /\ UNCHANGED <<ledger, envVars, reqVars, defVars,
                   defaultCurrency, convertArgs, createVars, outVars, dupVars, rows,
                   importedCount>>

\* The amount the confirm loop passes to convertAmount.
ConfirmConvertArg(amount) == MathAbs(amount)

\* finalAmount = transaction.amount < 0 ? -converted : converted
ApplySign(amount, converted) ==
    IF LessThanZero(amount) THEN Negate(converted) ELSE converted

\* await convertAmount(Math.abs(transaction.amount), csvCurrency, defaultCurrency)
RowConvert ==
    /\ pc = "rowConvert"
    /\ Call("convertAmount")
    /\ convertArgs' = convertArgs \cup {ConfirmConvertArg(rows[idx])}
    /\ \/ \E rate \in Rates :
             LET converted == ConvertResult(ConfirmConvertArg(rows[idx]), rate)
             IN /\ finalAmount' = ApplySign(rows[idx], converted)
                /\ conversionRate' = Divide(converted, MathAbs(rows[idx]))
                /\ finalCurrency' = defaultCurrency
                /\ conversion' = "ok"
       \/ \* conversionError: keep the original amount
          /\ finalAmount' = rows[idx]
          /\ finalCurrency' = CsvCurrency
          /\ conversionRate' = Num(1)
          /\ conversion' = "failed"
    /\ newTransaction' =
          NewTransaction(rows[idx], finalAmount', finalCurrency', conversionRate')
    /\ pc' = "rowCreate"
    /\ UNCHANGED <<ledger, envVars, type, accepted, bodyReads, response,
                   defVars, defaultCurrency, createVars, outVars, dupVars, rows, idx,
                   processed, importedCount, failedCount>>

\* The record the confirm loop hands to createTransaction.
ConfirmCreateArgs(record) ==
    [amount |-> record.originalAmount, currency |-> record.originalCurrency]

\* await services.transactions.createTransaction(userId, {...}) of a row
RowCreate ==
    /\ pc = "rowCreate"
    /\ Call("createTransaction")
    /\ \E ok \in BOOLEAN :
          IF ok
          THEN /\ ledger' = Append(ledger, ConfirmCreateArgs(newTransaction))
               /\ importedCount' = importedCount + 1
               /\ createdOk' = createdOk + 1
               /\ idx' = NextRowAfterSuccess(idx)
               /\ UNCHANGED <<failedCount, createFailed>>
          ELSE /\ failedCount' = failedCount + 1
               /\ createFailed' = createFailed + 1
               /\ idx' = NextRowAfterFailure(idx)
               /\ UNCHANGED <<ledger, importedCount, createdOk>>
    /\ processed' = Append(processed, idx)
    /\ pc' = LoopAt(idx')
    /\ UNCHANGED <<envVars, type, accepted, bodyReads, response, defVars,
                   convVars, outVars, dupVars, rows, newTransaction>>

\* The summary with both counts.
ConfirmRespond ==
    /\ pc = "confirmRespond"
    /\ Return([MessageResponse("CSV_SUCCESS") EXCEPT
                  !.type = "csv_success", !.imported = importedCount,
                  !.failed = failedCount])
    /\ UNCHANGED <<ledger, envVars, type, accepted, bodyReads, calls,
                   defVars, convVars, createVars, outVars, dupVars, rowVars>>

ImportPreview ==
    \/ CsvReadBody
    \/ DuplicateAnalysis
    \/ ComposeDuplicate
    \/ ParseCSVPreview

ImportConfirm ==
    \/ ParseCSVConfirm
    \/ ConfirmGetServices
    \/ ConfirmFindProfile
    \/ RowStart
    \/ RowConvert
    \/ RowCreate
    \/ ConfirmRespond

Next ==
    \/ ReadBody
    \/ DefaultPath
    \/ ImportPreview
    \/ ImportConfirm

Spec == Init /\ [][Next]_vars

\* --------------------------------------- the classification helper alone
\* handleFinancialQueryWithLLM applied to a given outcome of its model call.
InitClassify ==
    /\ pc = "classify"
    /\ requests = NoRequests
    /\ ledger = <<>>
    /\ ledgerBefore = <<>>
    /\ profileSetting = "USD"
    /\ modelOutput \in ClassifierOutputs
    /\ InitState

ClassifyOutput ==
    /\ pc = "classify"
    /\ modelOutput # NoOutput
    /\ queryAnalysis' = HandleFinancialQuery(modelOutput)
    /\ pc' = "classified"
    /\ UNCHANGED <<ledger, envVars, reqVars, snapshot, responseText,
                   transactionAdded, transactionInfo, transactionCurrency,
                   convVars, createVars, outVars, dupVars, rowVars>>

NextClassify == ClassifyOutput

SpecClassify == InitClassify /\ [][NextClassify]_vars

\* ------------------------------------------------- the snapshot alone
\* Amounts a fetched transaction may carry: the integers up to MaxAmount in
\* size, or none.
FetchedAmounts ==
    {Num(n) : n \in (0 - MaxAmount)..MaxAmount} \cup {Undefined, Null}

\* Lists getTransactions may return, one longer than the ledger of Spec.
FetchedLists ==
    UNION {[1..n -> [amount : FetchedAmounts, currency : {"USD"}]] :
             n \in 0..(MaxLedger + 1)}

\* The default path at its getTransactions call, for every list the call
\* may return.
InitSnapshot ==
    /\ pc = "getTransactions"
    /\ requests = NoRequests
    /\ ledger \in FetchedLists
    /\ ledgerBefore = ledger
    /\ profileSetting = "USD"
    /\ modelOutput = NoOutput
    /\ InitState

NextSnapshot == GetTransactions

SpecSnapshot == InitSnapshot /\ [][NextSnapshot]_vars

\* ------------------------------------- two requests of one user together
\* Two default-path requests carrying the same message, each at its own
\* position between getServices and the end of the transaction block; the
\* ledger is the one thing they share.  The positions after the block
\* (composeSuccess, composeError, generalChat, fallback) do not reach the
\* ledger and end a request here.
Requests == 1..2

\* Messages that parseTransactionText turns into a detected transaction.
TransactionalMessages == {m \in ParsedTransactions : Detected(m)}

NewRequest(m) ==
    [pc |-> "getServices", message |-> m, transactions |-> <<>>,
     transactionInfo |-> NoTransaction, transactionCurrency |-> "none",
     creates |-> 0]

InitConcurrent ==
    /\ pc = "idle"
    /\ ledger = <<>>
    /\ ledgerBefore = <<>>
    /\ profileSetting \in ProfileSettings
    /\ modelOutput = NoOutput
    /\ \E m \in TransactionalMessages :
          requests = [r \in Requests |-> NewRequest(m)]
    /\ InitState

handlerVars == <<pc, profileSetting, ledgerBefore, previous, markerOk,
                 modelOutput, reqVars, defVars, convVars, createVars, outVars,
                 dupVars, rowVars>>

\* Request r moves to position `to` with the fields of `q`.
Move(r, q, to) == requests' = [requests EXCEPT ![r] = [q EXCEPT !.pc = to]]

\* await getServices()
ConcurrentGetServices(r) ==
    /\ requests[r].pc = "getServices"
    /\ \E ok \in BOOLEAN :
          Move(r, requests[r], IF ok THEN "getTransactions" ELSE "fallback")
    /\ UNCHANGED <<ledger, handlerVars>>

\* await services.transactions.getTransactions(userId, 1000)
ConcurrentGetTransactions(r) ==
    /\ requests[r].pc = "getTransactions"
    /\ \/ Move(r, [requests[r] EXCEPT !.transactions = ledger], "findProfile")
       \/ Move(r, requests[r], "fallback")
    /\ UNCHANGED <<ledger, handlerVars>>

\* await services.repositories.profiles.findById(userId)
ConcurrentFindProfile(r) ==
    /\ requests[r].pc = "findProfile"
    /\ \E ok \in BOOLEAN :
          Move(r, requests[r], IF ok THEN "parseTransactionText" ELSE "fallback")
    /\ UNCHANGED <<ledger, handlerVars>>

\* (a transaction block skipped when the fetched transactions hold the
\* record already)
PersistsUnlessFetched(info, transactions) ==
    /\ info # NoTransaction
    /\ \A i \in DOMAIN transactions :
          transactions[i].amount # info.amount
\* if (transactionInfo): the fetched transactions play no part
Persists(info, transactions) == info # NoTransaction

\* await parseTransactionText(message), the detection test and
\* if (transactionInfo)
ConcurrentParseTransactionText(r) ==
    /\ requests[r].pc = "parseTransactionText"
    /\ \/ LET info == IF Detected(requests[r].message)
                       THEN requests[r].message ELSE NoTransaction
          IN Move(r, [requests[r] EXCEPT !.transactionInfo = info],
                  IF Persists(info, requests[r].transactions)
                  THEN "findProfileForTransaction" ELSE "generalChat")
       \/ \* the call throws
          Move(r, requests[r], "generalChat")
    /\ UNCHANGED <<ledger, handlerVars>>

\* The second findById and transactionInfo.currency || defaultCurrency
ConcurrentFindProfileForTransaction(r) ==
    /\ requests[r].pc = "findProfileForTransaction"
    /\ \/ LET dc == DefaultCurrencyOf(profileSetting)
              tc == CurrencyOr(requests[r].transactionInfo.currency, dc)
          IN Move(r, [requests[r] EXCEPT !.transactionCurrency = tc],
                  IF tc # dc THEN "convertAmount" ELSE "createTransaction")
       \/ Move(r, requests[r], "composeError")
    /\ UNCHANGED <<ledger, handlerVars>>

\* await convertAmount(...): whatever its outcome, the record created is
\* built from transactionInfo and transactionCurrency
ConcurrentConvertAmount(r) ==
    /\ requests[r].pc = "convertAmount"
    /\ Move(r, requests[r], "createTransaction")
    /\ UNCHANGED <<ledger, handlerVars>>

\* await services.transactions.createTransaction(userId, {...})
ConcurrentCreateTransaction(r) ==
    /\ requests[r].pc = "createTransaction"
    /\ LET q == [requests[r] EXCEPT !.creates = @ + 1]
       IN \/ /\ ledger' = Append(ledger, CreateArgs(q.transactionInfo,
                                                    q.transactionCurrency))
             /\ Move(r, q, "composeSuccess")
          \/ /\ Move(r, q, "composeError")
             /\ UNCHANGED ledger
    /\ UNCHANGED handlerVars

NextConcurrent ==
    \E r \in Requests :
        \/ ConcurrentGetServices(r)
        \/ ConcurrentGetTransactions(r)
        \/ ConcurrentFindProfile(r)
        \/ ConcurrentParseTransactionText(r)
        \/ ConcurrentFindProfileForTransaction(r)
        \/ ConcurrentConvertAmount(r)
        \/ ConcurrentCreateTransaction(r)

SpecConcurrent == InitConcurrent /\ [][NextConcurrent]_vars

\* ================================================================ claims
Range(f) == {f[i] : i \in DOMAIN f}
Called(name) == name \in Range(calls)
Count(name) == Cardinality({i \in DOMAIN calls : calls[i] = name})

\* The handler has returned from a default-path request that passed the
\* message and credentials checks.
DefaultDone == pc = "done" /\ type = "default" /\ accepted

\* C1: every accepted default-mode request ends with a 200 success response
\* carrying a message, whatever collaborators fail; it never ends in the
\* generic 500.
C1_AlwaysAnswered ==
    DefaultDone =>
        /\ response.status = 200
        /\ response.success = "true"
        /\ response.message # ""

\* C2: when a detected transaction's createTransaction fails, the message
\* returned to the user is the composed apology or the fixed error string; no
\* later step replaces it with another text.
C2_FailureMessageKept ==
    (DefaultDone /\ createFailed > 0 /\ response.status = 200) =>
        response.message \in {"AI_APOLOGY", FixedError}

\* C3: the apology or the fixed error string is returned only when
\* createTransaction did not succeed; when it succeeded the response is the
\* success acknowledgement.
C3_FailureReportOnlyOnFailure ==
    DefaultDone =>
        /\ response.message \in {"AI_APOLOGY", FixedError} => createdOk = 0
        /\ createdOk > 0 => response.message = "AI_SUCCESS"

\* C4: once extraction has detected a transaction, neither intent
\* classification nor the Q&A collaborator is invoked and the response is
\* never the Q&A answer or the general-chat text.
C4_EntryHasPriority ==
    (type = "default" /\ accepted /\ transactionInfo # NoTransaction) =>
        /\ ~Called("handleFinancialQueryWithLLM")
        /\ ~Called("answerFinancialQuestion")
        /\ pc = "done" => response.message \notin {"QA_ANSWER", "AI_GENERAL"}

InRowLoop == pc \in {"row", "rowConvert", "rowCreate"}

\* C5: in the confirm loop every row is processed exactly once, in order,
\* whatever failed before it; when the loop ends importedCount + failedCount
\* is the number of rows and importedCount is the number of createTransaction
\* calls that succeeded.
C5_RowIsolation ==
    /\ InRowLoop =>
          /\ idx \in 1..Len(rows)
          /\ processed = [i \in 1..(idx - 1) |-> i]
          /\ importedCount + failedCount = idx - 1
          /\ importedCount = createdOk
    /\ pc = "confirmRespond" =>
          /\ processed = [i \in 1..Len(rows) |-> i]
          /\ importedCount + failedCount = Len(rows)
          /\ importedCount = createdOk
    /\ (pc = "done" /\ response.message = "CSV_SUCCESS") =>
          /\ response.imported + response.failed = Len(rows)
          /\ response.imported = createdOk

\* C5 witness: the first of two rows failed to persist, the second was
\* imported, and the loop has ended.
C5_Witness ==
    /\ pc = "confirmRespond"
    /\ rows = <<Num(-MaxAmount), Num(MaxAmount - 1)>>
    /\ createFailed = 1
    /\ importedCount = 1
    /\ ledger[Len(ledger)].amount = Num(MaxAmount - 1)

\* Rows lacking an amount, and rows that have one.
Malformed == {i \in DOMAIN rows : ~IsNum(rows[i])}
WellFormed == {i \in DOMAIN rows : IsNum(rows[i])}

\* C6: a row lacking an amount is counted in failedCount and never handed to
\* createTransaction: with persistence never failing, importedCount is the
\* number of well-formed rows and failedCount the number of malformed rows.
C6_MalformedRowsFail ==
    /\ (pc = "confirmRespond" /\ createFailed = 0) =>
          /\ importedCount = Cardinality(WellFormed)
          /\ failedCount = Cardinality(Malformed)
    /\ (pc = "rowCreate") => IsNum(rows[idx])

\* The position of the last call of `name`, 0 when there is none.
LastCall(name) ==
    LET at == {i \in DOMAIN calls : calls[i] = name}
    IN IF at = {} THEN 0 ELSE CHOOSE i \in at : \A j \in at : j <= i

\* Persistence of the transaction is under way or was attempted after the
\* last conversion.
PersistenceAttempted ==
    \/ pc \in {"createTransaction", "rowCreate"}
    \/ LastCall("createTransaction") > LastCall("convertAmount")

\* C7: when the source currency is the default currency or the conversion
\* fails, the normalized record has convertedAmount = originalAmount,
\* convertedCurrency = originalCurrency and conversionRate = 1, for negative
\* amounts too, and persistence is still attempted.
C7_IdentityNormalization ==
    /\ (pc = "rowCreate" /\ IsNum(rows[idx]) /\ conversion # "ok") =>
          /\ newTransaction.convertedAmount = newTransaction.originalAmount
          /\ newTransaction.convertedCurrency = newTransaction.originalCurrency
          /\ newTransaction.conversionRate = Num(1)
    /\ (pc = "createTransaction" /\ IsNum(transactionInfo.amount) /\ conversion # "ok") =>
          /\ finalAmount = transactionInfo.amount
          /\ finalCurrency = transactionCurrency
          /\ conversionRate = Num(1)
    /\ conversion = "failed" => PersistenceAttempted

\* C8: convertAmount is only ever invoked with the absolute value of the
\* amount, and a converted negative amount is negative.
C8_SignPreserving ==
    /\ \A a \in convertArgs : ~LessThanZero(a)
    /\ (pc = "rowCreate" /\ conversion = "ok" /\ LessThanZero(rows[idx])) =>
          LessThanZero(finalAmount)
    /\ (pc = "createTransaction" /\ conversion = "ok"
          /\ LessThanZero(transactionInfo.amount)) => LessThanZero(finalAmount)

\* The text begins with the duplicate marker.
StartsWithMarker(text) == Len(text) >= 1 /\ text[1] = "DUPLICATE"

\* The preview phase took the duplicate branch.
ClassifiedDuplicate ==
    \/ pc = "composeDuplicate"
    \/ pc = "done" /\ type = "csv_import" /\ response.isDuplicate = "true"

\* C9: a file is classified as duplicate only if the analysis text begins
\* with the duplicate marker; any other text leads to row parsing.
C9_DuplicateOnlyByPrefix ==
    /\ ClassifiedDuplicate => StartsWithMarker(duplicateAnalysis)
    /\ (pc = "parseCSVPreview" /\ Called("generateContent")) =>
          ~StartsWithMarker(duplicateAnalysis)

PersistenceOrParserCalled ==
    \/ Called("parseCSVWithGemini")
    \/ Called("getServices")
    \/ Called("getTransactions")
    \/ Called("createTransaction")

\* C10: a csv_import request classified as duplicate ends without calling
\* the row parser or the ledger, with a 200 response whose isDuplicate is
\* true and whose message is the composed warning, or the canned warning when
\* the composition fails; never with an error.
C10_DuplicateShortCircuit ==
    /\ pc = "composeDuplicate" => ~PersistenceOrParserCalled
    /\ (pc = "done" /\ type = "csv_import" /\ accepted
          /\ IsDuplicate(duplicateAnalysis)) =>
          /\ response.status = 200
          /\ response.success = "true"
          /\ response.isDuplicate = "true"
          /\ response.message \in {"AI_DUPLICATE", "CANNED_DUPLICATE"}
          /\ response.message = "CANNED_DUPLICATE" =>
                response.explanation = StripMarker(duplicateAnalysis)
          /\ ~PersistenceOrParserCalled
          /\ Count("generateContent") = 2

\* C10 witness: the analysis classified the file as duplicate, composing the
\* warning failed, and the canned warning was returned.
C10_Witness ==
    /\ pc = "done"
    /\ type = "csv_import"
    /\ IsDuplicate(duplicateAnalysis)
    /\ response.message = "CANNED_DUPLICATE"
    /\ response.status = 200

\* C11: when the duplicate-analysis call of a csv_import request throws, the
\* failure is absorbed: the analysis text stays empty, the file is not taken
\* for a duplicate, and the request goes on to the row parser and ends with
\* the preview response (or the 500 of a failing parser), as a request
\* without a previous file does.
C11_AnalysisFailureAbsorbed ==
    analysis = "threw" =>
        /\ type = "csv_import"
        /\ duplicateAnalysis = <<>>
        /\ pc \in {"parseCSVPreview", "done"}
        /\ pc = "parseCSVPreview" =>
              /\ calls = <<"generateContent">>
              /\ response = NoResponse
        /\ pc = "done" =>
              /\ calls = <<"generateContent", "parseCSVWithGemini">>
              /\ response \in {PreviewResponse, CsvImportFailed}
              /\ response.isDuplicate = "absent"

\* C11 witness: the analysis call threw and the request ended with the
\* preview response.
C11_Witness ==
    /\ analysis = "threw"
    /\ pc = "done"
    /\ response.type = "csv_preview"
    /\ response.status = 200

\* C12: an accepted import request, of either phase, whose message does not
\* carry the phase's marker ends with a 400 structured error and without
\* any collaborator call or ledger change.
C12_MismatchRejected ==
    (pc = "done" /\ accepted /\ type \in {"csv_import", "csv_import_confirm"}
        /\ ~markerOk) =>
        /\ response.status = 400
        /\ response.success = "false"
        /\ calls = <<>>
        /\ convertArgs = {}
        /\ ledger = ledgerBefore

\* C13: a csv_import request never persists: whatever its outcome,
\* createTransaction is not called and the ledger is the one the request
\* found; its successful preview response has requiresConfirmation true.
C13_PreviewNeverPersists ==
    type = "csv_import" =>
        /\ ledger = ledgerBefore
        /\ ~Called("createTransaction")
        /\ createdOk = 0 /\ createFailed = 0
        /\ response.type = "csv_preview" =>
              /\ response.status = 200
              /\ response.requiresConfirmation = "true"

\* C13 witness: a preview was returned by a request that found a ledger
\* with records in it.
C13_Witness ==
    /\ type = "csv_import"
    /\ pc = "done"
    /\ response.type = "csv_preview"
    /\ Len(ledgerBefore) >= 1

\* C14: a csv_import_confirm request whose message carries the marker does
\* not depend on the requests before it: whatever preceded it, it is not
\* rejected for its format, it calls the row parser first, and every row
\* whose createTransaction returns is appended to the ledger it found, also
\* when the same records are in the ledger already.
C14_ConfirmIndependent ==
    (type = "csv_import_confirm" /\ accepted /\ markerOk) =>
        /\ response.status # 400
        /\ pc # "csv_import_confirm" =>
              /\ calls # <<>>
              /\ calls[1] = "parseCSVWithGemini"
        /\ Len(ledger) = Len(ledgerBefore) + createdOk
        /\ SubSeq(ledger, 1, Len(ledgerBefore)) = ledgerBefore
        /\ (pc = "done" /\ response.status = 200) =>
              /\ importedCount = createdOk
              /\ importedCount + failedCount = Len(rows)

\* C14 witness: the request before flagged a duplicate, the ledger held one
\* record, and the confirm request persisted the same record once more.
C14_Witness ==
    /\ type = "csv_import_confirm"
    /\ previous = "duplicate"
    /\ pc = "done"
    /\ response.status = 200
    /\ createdOk = 1
    /\ Len(ledgerBefore) = 1
    /\ ledger = ledgerBefore \o ledgerBefore

\* C15: handleFinancialQueryWithLLM always returns: for every outcome of its
\* model call the helper has a result, which is the output's isFinancial and
\* intent exactly when the output, bare or fenced, is a JSON object with a
\* boolean isFinancial and a string intent, and is {isFinancial: false,
\* intent: "unknown"} when the call throws, when the output is empty, not
\* JSON or null, and when a field is missing or of another type.
C15_ClassificationTotal ==
    LET wellShaped ==
            /\ ~modelOutput.threw
            /\ modelOutput.kind = "object"
            /\ modelOutput.isFinancial \in {"true", "false"}
            /\ modelOutput.intent \in {"balance_inquiry", "non_financial"}
    IN /\ (pc = "classify" /\ modelOutput # NoOutput) => ENABLED ClassifyOutput
       /\ pc = "classified" =>
             /\ queryAnalysis \in [isFinancial : BOOLEAN,
                                   intent : {"balance_inquiry", "non_financial",
                                             "unknown"}]
             /\ wellShaped =>
                   queryAnalysis = [isFinancial |-> modelOutput.isFinancial = "true",
                                    intent |-> modelOutput.intent]
             /\ ~wellShaped => queryAnalysis = UnknownIntent

\* C15 witness: a fenced JSON object with both fields well typed was
\* classified as the financial query it describes.
C15_Witness ==
    /\ pc = "classified"
    /\ modelOutput.fenced
    /\ queryAnalysis = [isFinancial |-> TRUE, intent |-> "balance_inquiry"]

\* C16: on the default path createTransaction is attempted only for an
\* extracted record whose amount is a number (not undefined, not null) and
\* whose description is not empty; after any other extraction, a throwing
\* one included, nothing is persisted and the request goes on to the
\* general-chat completion.
C16_PersistOnlyWhenDetected ==
    (type = "default" /\ accepted) =>
        /\ Called("createTransaction") =>
              /\ IsNum(transactionInfo.amount)
              /\ transactionInfo.description # ""
        /\ (Called("parseTransactionText") /\ transactionInfo = NoTransaction) =>
              /\ ~Called("createTransaction")
              /\ ledger = ledgerBefore
              /\ pc \in {"generalChat", "classify", "answerFinancialQuestion",
                         "respond", "fallback", "done"}
              /\ pc # "generalChat" => Called("generateContent")

\* C17: when getServices, getTransactions or the profile lookup fails at the
\* start of the default path, the request makes no extraction, persistence,
\* conversion, classification or Q&A call, makes exactly one completion
\* call, for the fallback prompt, and returns its text with status 200 and
\* success true.
C17_FetchFailureFallback ==
    (type = "default" /\ accepted /\ pc \in {"fallback", "done"}
        /\ ~Called("parseTransactionText")) =>
        /\ ~Called("createTransaction")
        /\ ~Called("convertAmount")
        /\ ~Called("handleFinancialQueryWithLLM")
        /\ ~Called("answerFinancialQuestion")
        /\ ledger = ledgerBefore
        /\ pc = "fallback" => Count("generateContent") = 0
        /\ pc = "done" =>
              /\ Count("generateContent") = 1
              /\ response = MessageResponse("AI_FALLBACK")

\* C18: when no transaction was detected and answerFinancialQuestion throws
\* after a financial classification, the request goes to the final return:
\* status 200, success true, transactionAdded false and the general-chat
\* text, which was composed by the one generateContent call of the request,
\* before the classification; no call follows the failed Q&A call.
C18_AnswerFailureFallsThrough ==
    (type = "default" /\ accepted /\ answer = "threw"
        /\ transactionInfo = NoTransaction) =>
        /\ pc \in {"respond", "done"}
        /\ queryAnalysis.isFinancial
        /\ responseText = "AI_GENERAL"
        /\ Count("generateContent") = 1
        /\ LastCall("generateContent") < LastCall("handleFinancialQueryWithLLM")
        /\ LastCall("handleFinancialQueryWithLLM") < LastCall("answerFinancialQuestion")
        /\ LastCall("answerFinancialQuestion") = Len(calls)
        /\ pc = "done" =>
              response = [MessageResponse("AI_GENERAL") EXCEPT
                             !.transactionAdded = "false"]

\* C18 witness: the Q&A call threw in a request without a detected
\* transaction, and the general-chat text was returned.
C18_Witness ==
    /\ type = "default"
    /\ answer = "threw"
    /\ transactionInfo = NoTransaction
    /\ pc = "done"
    /\ response.message = "AI_GENERAL"

\* C19: when answerFinancialQuestion returns, no transaction was persisted
\* and the query was classified financial, and the request ends with status
\* 200, success true, the Q&A answer as its message and transactionAdded
\* false.
C19_AnswerReturned ==
    (type = "default" /\ accepted /\ answer = "ok") =>
        /\ pc = "done"
        /\ queryAnalysis.isFinancial
        /\ ~transactionAdded
        /\ createdOk = 0
        /\ response.status = 200
        /\ response.success = "true"
        /\ response.message = "QA_ANSWER"
        /\ response.transactionAdded = "false"

\* C19 witness: the Q&A call returned in a request classified financial,
\* and its answer is the message of the response.
C19_Witness ==
    /\ type = "default"
    /\ answer = "ok"
    /\ pc = "done"
    /\ queryAnalysis.isFinancial
    /\ response.message = "QA_ANSWER"

\* C20: after a successful createTransaction on the default path, the
\* balance, income, expense and count figures of the success prompt are
\* those of the ledger with the new record in it.
C20_SuccessPromptUpdated ==
    (type = "default" /\ promptFigures # NoSnapshot) =>
        promptFigures = SnapshotOf(ledger)

RECURSIVE Total(_)
Total(numbers) ==
    IF numbers = <<>> THEN 0 ELSE Head(numbers) + Total(Tail(numbers))

\* The amounts of a transaction list, a missing amount taken as 0.
AmountsOf(list) == [i \in DOMAIN list |-> AmountOrZero(list[i].amount)]

Abs(n) == IF n < 0 THEN -n ELSE n

\* C21: the snapshot computed from the fetched transactions has income equal
\* to the sum of the positive amounts and expenses equal to the absolute
\* value of the sum of the negative amounts, both at least 0, and a balance
\* of income minus expenses, which is the sum of all amounts.
C21_SnapshotArithmetic ==
    pc = "findProfile" =>
        LET amounts == AmountsOf(ledger)
        IN /\ snapshot.income = Total(SelectSeq(amounts, LAMBDA n : n > 0))
           /\ snapshot.expenses = Abs(Total(SelectSeq(amounts, LAMBDA n : n < 0)))
           /\ snapshot.income >= 0
           /\ snapshot.expenses >= 0
           /\ snapshot.totalBalance = snapshot.income - snapshot.expenses
           /\ snapshot.totalBalance = Total(amounts)
           /\ snapshot.count = Len(ledger)

\* C21 witness: a snapshot was taken of a list holding an income, an
\* expense and a transaction without amount.
C21_Witness ==
    /\ pc = "findProfile"
    /\ snapshot.income > 0
    /\ snapshot.expenses > 0
    /\ snapshot.income # snapshot.expenses
    /\ \E i \in DOMAIN ledger : ledger[i].amount = Undefined

ImportDone ==
    /\ pc = "done"
    /\ accepted
    /\ type \in {"csv_import", "csv_import_confirm"}

\* C22 as stated: an import request that fails, its response carrying an
\* error string, is answered inside a 200 envelope with success false.
C22_FailureIn200Envelope ==
    (ImportDone /\ response.error # "") =>
        /\ response.status = 200
        /\ response.success = "false"

\* C22, amended: no import response is a 200 envelope with success false.
\* A failure of the phase carries success false, an error string and status
\* 400 or 500; a 200 response carries success true and no error string, and
\* the rows that failed appear in it only as the failed count.
C22_ImportFailureStatus ==
    ImportDone =>
        /\ ~(response.status = 200 /\ response.success = "false")
        /\ response.status \in {200, 400, 500}
        /\ response.status = 200 <=> response.success = "true"
        /\ response.status = 200 <=> response.error = ""
        /\ failedCount > 0 =>
              /\ response.status = 200
              /\ response.failed = failedCount

\* C22 witness: a confirm request with a failed row ended with status 200
\* and success true.
C22_Witness ==
    /\ ImportDone
    /\ failedCount > 0
    /\ response.status = 200
    /\ response.success = "true"

\* C23: two default-path requests with the same transactional message do
\* not hold each other back, under any interleaving of their collaborator
\* calls: a request skips the transaction block only when its extraction
\* threw, calls createTransaction at most once and exactly once when it
\* reaches the success prompt, and when both reach it the ledger holds two
\* records for the one message.
C23_NoDuplicateGuard ==
    /\ \A r \in DOMAIN requests :
          /\ requests[r].creates <= 1
          /\ requests[r].pc = "composeSuccess" => requests[r].creates = 1
          /\ requests[r].pc = "generalChat" =>
                requests[r].transactionInfo = NoTransaction
          /\ requests[r].pc \in {"getServices", "getTransactions",
                                 "findProfile", "parseTransactionText",
                                 "findProfileForTransaction", "convertAmount",
                                 "createTransaction"} => requests[r].creates = 0
    /\ requests # NoRequests =>
          /\ Len(ledger) =
                Cardinality({r \in Requests : requests[r].pc = "composeSuccess"})
          /\ (\A r \in Requests : requests[r].pc = "composeSuccess") =>
                /\ Len(ledger) = 2
                /\ ledger[1] = ledger[2]
                /\ ledger[1].amount = requests[1].message.amount

\* C23 witness: both requests persisted, and the second had fetched a
\* ledger that held the record of the first.
C23_Witness ==
    /\ requests # NoRequests
    /\ \A r \in Requests : requests[r].pc = "composeSuccess"
    /\ Len(requests[1].transactions) = 0
    /\ Len(requests[2].transactions) = 1
    /\ Len(ledger) = 2

\* C24: the record handed to createTransaction is the normalized one: after
\* a successful conversion it carries the converted amount and the default
\* currency, in the default path and in the confirm phase.
C24_PersistedNormalized ==
    /\ (pc = "createTransaction" /\ conversion = "ok") =>
          /\ DefaultCreateArgs.amount = finalAmount
          /\ DefaultCreateArgs.currency = finalCurrency
          /\ DefaultCreateArgs.currency = defaultCurrency
    /\ (pc = "rowCreate" /\ conversion = "ok") =>
          /\ ConfirmCreateArgs(newTransaction).amount = newTransaction.convertedAmount
          /\ ConfirmCreateArgs(newTransaction).currency = newTransaction.convertedCurrency
          /\ ConfirmCreateArgs(newTransaction).currency = defaultCurrency

\* C25: the amount the confirm phase hands to createTransaction has the sign
\* of the row's extracted amount: a negative row is stored negative, and the
\* records a confirm request has added count under expenses exactly when
\* their rows were expenses.
C25_ConfirmKeepsSign ==
    /\ (pc = "rowCreate" /\ IsNum(rows[idx])) =>
          /\ LessThanZero(ConfirmCreateArgs(newTransaction).amount)
                <=> LessThanZero(rows[idx])
          /\ GreaterThanZero(ConfirmCreateArgs(newTransaction).amount)
                <=> GreaterThanZero(rows[idx])
    /\ (type = "csv_import_confirm" /\ pc = "done" /\ importedCount = Len(rows)
          /\ \A i \in DOMAIN rows : LessThanZero(rows[i])) =>
          SnapshotOf(ledger).expenses >= SnapshotOf(ledgerBefore).expenses + Len(rows)

\* C26: in a finished default-path request the transactionAdded flag tells
\* what happened to the ledger: a request whose createTransaction returned
\* answers with transactionAdded true, a response with transactionAdded true
\* comes from a request whose createTransaction returned exactly once, and
\* the Q&A answer and the fallback text are returned only by requests that
\* persisted nothing.
C26_FlagFaithful ==
    DefaultDone =>
        /\ createdOk >= 1 => response.transactionAdded = "true"
        /\ response.transactionAdded = "true" =>
              /\ createdOk = 1
              /\ Count("createTransaction") = 1
              /\ ledger = Append(ledgerBefore, DefaultCreateArgs)
        /\ (answer = "ok" \/ response.message \in {"QA_ANSWER", "AI_FALLBACK"}) =>
              /\ createdOk = 0
              /\ ledger = ledgerBefore
        /\ createdOk = 0 => ledger = ledgerBefore

\* C26 witness: createTransaction returned, composing the success message
\* failed, and the response still carries transactionAdded true.
C26_Witness ==
    /\ DefaultDone
    /\ createdOk = 1
    /\ response.message \in {"AI_APOLOGY", FixedError}
    /\ response.transactionAdded = "true"

\* C27: a request reads its body at most once, in every mode.
C27_BodyReadOnce == bodyReads <= 1

====
